---------------------------- MODULE Spec2Model ----------------------------
(***************************************************************************)
(* S-curve (jerk-limited) motion profiles of FluidNC: the two profile      *)
(* synthesizers and the three real-time evaluators of SCurve.cpp.          *)
(*                                                                         *)
(* The C++ code computes in IEEE-754 binary32 ("float").  The functions    *)
(* are modelled on binary32 values with round-to-nearest-even, so that     *)
(* rounding, infinities and NaN behave in the model as they do in the      *)
(* build.  A float is a record                                             *)
(*      [c |-> "fin" | "inf" | "nan", s |-> 0 | 1, m |-> Nat, e |-> Int]   *)
(* whose value, for c = "fin", is (-1)^s * m * 2^e with m < 2^24 and       *)
(* -149 <= e <= 104; m >= 2^23 unless e = -149 (subnormals and zero).      *)
(***************************************************************************)
EXTENDS Integers, Sequences, FiniteSets, TLC

-----------------------------------------------------------------------------
(* binary32 arithmetic                                                     *)

MantBits == 24
MinExp == -149
MaxExp == 104
InfExp == 200

NaN == [c |-> "nan", s |-> 0, m |-> 0, e |-> 0]
\* A signalling NaN: only an argument or a stale memory word can be one, as
\* every arithmetic operation returns the quiet NaN
SNaN == [c |-> "nan", s |-> 0, m |-> 1, e |-> 0]
Inf(s) == [c |-> "inf", s |-> s, m |-> 0, e |-> InfExp]
Zero(s) == [c |-> "fin", s |-> s, m |-> 0, e |-> MinExp]
Fin(s, m, e) == [c |-> "fin", s |-> s, m |-> m, e |-> e]

\* The value of a float object that was never written: the program does not
\* determine it, and it may be any float at all.  Arithmetic on it gives a
\* value that is not determined either (a NaN operand still gives NaN), and
\* no comparison with it is known to hold.  The program itself never
\* compares such a value: it only copies it and computes with it.
Indeterminate == [c |-> "any", s |-> 0, m |-> 0, e |-> 0]
IsIndeterminate(a) == a.c = "any"

IsNaN(a) == a.c = "nan"
IsSignalling(a) == a.c = "nan" /\ a.m = 1
IsInf(a) == a.c = "inf"
IsZero(a) == a.c = "fin" /\ a.m = 0
SignXor(a, b) == (a.s + b.s) % 2

RECURSIVE BitLen(_)
BitLen(n) == IF n = 0 THEN 0 ELSE 1 + BitLen(n \div 2)

\* The float (-1)^s * q * 2^e for q <= 2^24 and e >= MinExp
Pack(s, q, e) ==
    IF q = 2^MantBits
    THEN (IF e + 1 > MaxExp THEN Inf(s) ELSE Fin(s, 2^(MantBits - 1), e + 1))
    ELSE IF e > MaxExp THEN Inf(s)
    ELSE IF q = 0 THEN Zero(s) ELSE Fin(s, q, e)

\* Round q + (r + f) / (2 * half) to an integer, ties to even (0 <= f < 1,
\* f > 0 iff st)
RoundCut(s, q, r, half, st, e) ==
    Pack(s, IF r > half \/ (r = half /\ (st \/ q % 2 = 1)) THEN q + 1 ELSE q, e)

\* Drop the e - E low bits of M, an L-bit number
RoundShift(s, M, E, st, L, e) ==
    IF e - E <= 0 THEN Pack(s, M * 2^(E - e), e)
    ELSE IF e - E > L THEN Zero(s)
    ELSE RoundCut(s, M \div 2^(e - E), M % 2^(e - E), 2^(e - E - 1), st, e)

\* Round the exact value (-1)^s * (M + f) * 2^E, 0 <= f < 1 and f > 0 iff st,
\* to the nearest binary32 value, ties to even.  M < 2^30.
RoundLen(s, M, E, st, L) ==
    RoundShift(s, M, E, st, L,
               IF E + L - MantBits < MinExp THEN MinExp ELSE E + L - MantBits)

RoundPack(s, M, E, st) ==
    IF M = 0 THEN Zero(s) ELSE RoundLen(s, M, E, st, BitLen(M))

\* A finite non-zero float with its mantissa shifted into [2^23, 2^24)
NormBy(a, k) == [m |-> a.m * 2^k, e |-> a.e - k]
Norm(a) == NormBy(a, MantBits - BitLen(a.m))

\* (float)n for an int n, |n| < 2^30
FromInt(n) == RoundPack(IF n < 0 THEN 1 ELSE 0, IF n < 0 THEN 0 - n ELSE n, 0, FALSE)

FNeg(a) == IF IsNaN(a) \/ IsIndeterminate(a) THEN a ELSE [a EXCEPT !.s = 1 - a.s]
FAbs(a) == IF IsNaN(a) \/ IsIndeterminate(a) THEN a ELSE [a EXCEPT !.s = 0]

\* The 48-bit product of two 24-bit mantissas from its partial products
MulPack(s, low, hi, E) ==
    RoundPack(s, (hi + low \div 16777216) * 64 + ((low % 16777216) \div 262144),
              E, (low % 16777216) % 262144 # 0)
MulSum(s, p0, p1, p2, E) ==
    MulPack(s, p0 + (p1 % 4096) * 4096, p2 + (p1 \div 4096), E)
MulParts(s, xh, xl, yh, yl, E) ==
    MulSum(s, xl * yl, xh * yl + xl * yh, xh * yh, E)
MulNorm(s, x, y) ==
    MulParts(s, x.m \div 4096, x.m % 4096, y.m \div 4096, y.m % 4096,
             x.e + y.e + 18)

FMul(a, b) ==
    IF IsNaN(a) \/ IsNaN(b) THEN NaN
    ELSE IF IsIndeterminate(a) \/ IsIndeterminate(b) THEN Indeterminate
    ELSE IF IsInf(a) \/ IsInf(b)
         THEN IF IsZero(a) \/ IsZero(b) THEN NaN ELSE Inf(SignXor(a, b))
    ELSE IF IsZero(a) \/ IsZero(b) THEN Zero(SignXor(a, b))
    ELSE MulNorm(SignXor(a, b), Norm(a), Norm(b))

\* n further base-128 digits of the quotient by d, from quotient q and
\* remainder r
RECURSIVE DivDigits(_, _, _, _)
DivDigits(q, r, d, n) ==
    IF n = 0 THEN <<q, r>>
    ELSE DivDigits(q * 128 + (r * 128) \div d, (r * 128) % d, d, n - 1)
DivPack(s, qr, E) == RoundPack(s, qr[1], E, qr[2] # 0)
DivNorm(s, x, y) ==
    DivPack(s, DivDigits(x.m \div y.m, x.m % y.m, y.m, 4), x.e - y.e - 28)

FDiv(a, b) ==
    IF IsNaN(a) \/ IsNaN(b) THEN NaN
    ELSE IF IsIndeterminate(a) \/ IsIndeterminate(b) THEN Indeterminate
    ELSE IF IsInf(a) THEN (IF IsInf(b) THEN NaN ELSE Inf(SignXor(a, b)))
    ELSE IF IsInf(b) THEN Zero(SignXor(a, b))
    ELSE IF IsZero(b) THEN (IF IsZero(a) THEN NaN ELSE Inf(SignXor(a, b)))
    ELSE IF IsZero(a) THEN Zero(SignXor(a, b))
    ELSE DivNorm(SignXor(a, b), Norm(a), Norm(b))

\* (-1)^s1 * M1 + (-1)^s2 * (M2 + f), scaled by 2^E; M1 > M2 if st
AddMag(s1, s2, M1, M2, E, st) ==
    IF s1 = s2 THEN RoundPack(s1, M1 + M2, E, st)
    ELSE IF M1 = M2 THEN Zero(0)
    ELSE RoundPack(IF M1 > M2 THEN s1 ELSE s2,
                   IF M1 > M2 THEN M1 - M2 - (IF st THEN 1 ELSE 0) ELSE M2 - M1,
                   E, st)
AddAligned(s1, s2, M1, m2, E, sh) ==
    AddMag(s1, s2, M1, IF sh > MantBits THEN 0 ELSE m2 \div 2^sh, E,
           IF sh > MantBits THEN TRUE ELSE m2 % 2^sh # 0)
AddShift(x, y, k) ==
    AddAligned(x.s, y.s, x.m * 2^k, y.m, x.e - k, x.e - y.e - k)
\* Sum of two finite non-zero floats, x.e >= y.e
AddFinite(x, y) == AddShift(x, y, IF x.e - y.e > 5 THEN 5 ELSE x.e - y.e)

FAdd(a, b) ==
    IF IsNaN(a) \/ IsNaN(b) THEN NaN
    ELSE IF IsIndeterminate(a) \/ IsIndeterminate(b) THEN Indeterminate
    ELSE IF IsInf(a) THEN (IF IsInf(b) /\ a.s # b.s THEN NaN ELSE a)
    ELSE IF IsInf(b) THEN b
    ELSE IF IsZero(a) /\ IsZero(b) THEN (IF a.s = 1 /\ b.s = 1 THEN Zero(1) ELSE Zero(0))
    ELSE IF IsZero(a) THEN b
    ELSE IF IsZero(b) THEN a
    ELSE AddFinite(IF a.e >= b.e THEN a ELSE b, IF a.e >= b.e THEN b ELSE a)

FSub(a, b) == FAdd(a, FNeg(b))

\* |a| < |b| for non-NaN a, b
MagLess(a, b) == a.e < b.e \/ (a.e = b.e /\ a.m < b.m)

FLt(a, b) ==
    IF IsNaN(a) \/ IsNaN(b) THEN FALSE
    ELSE IF IsIndeterminate(a) \/ IsIndeterminate(b) THEN FALSE
    ELSE IF IsZero(a) /\ IsZero(b) THEN FALSE
    ELSE IF a.s # b.s THEN a.s = 1
    ELSE IF a.s = 0 THEN MagLess(a, b) ELSE MagLess(b, a)

FEq(a, b) ==
    IF IsNaN(a) \/ IsNaN(b) THEN FALSE
    ELSE IF IsIndeterminate(a) \/ IsIndeterminate(b) THEN FALSE
    ELSE (IsZero(a) /\ IsZero(b)) \/ a = b

FGt(a, b) == FLt(b, a)
FLe(a, b) == FLt(a, b) \/ FEq(a, b)
FGe(a, b) == FLe(b, a)

\* fmaxf: a quiet NaN argument is treated as missing data, a signalling one
\* makes the result NaN; of two equal arguments (zeros of either sign) the
\* call fmaxf(0, x) returns the first
FMax(a, b) == IF IsIndeterminate(a) \/ IsIndeterminate(b) THEN Indeterminate
              ELSE IF IsSignalling(a) \/ IsSignalling(b) THEN NaN
              ELSE IF IsNaN(a) THEN b ELSE IF IsNaN(b) THEN a
              ELSE IF FLt(a, b) THEN b ELSE a
\* fminf: likewise for NaN; of two equal arguments (zeros of either sign)
\* the call fminf(distance1, distance2) returns the second
FMin(a, b) == IF IsIndeterminate(a) \/ IsIndeterminate(b) THEN Indeterminate
              ELSE IF IsSignalling(a) \/ IsSignalling(b) THEN NaN
              ELSE IF IsNaN(a) THEN b ELSE IF IsNaN(b) THEN a
              ELSE IF FLt(a, b) THEN a ELSE b

\* The integer square root, one bit a step: pairs i, i-1, ..., 0 of the
\* radicand m2 * 4^12 are brought down into the remainder rem
RECURSIVE SqrtDigits(_, _, _, _)
RECURSIVE SqrtStep(_, _, _, _)
SqrtDigits(root, rem, m2, i) ==
    IF i < 0 THEN <<root, rem>>
    ELSE SqrtStep(root,
                  rem * 4 + (IF i >= 12 THEN (m2 \div 4^(i - 12)) % 4 ELSE 0),
                  m2, i)
SqrtStep(root, r, m2, i) ==
    IF r >= 4 * root + 1
    THEN SqrtDigits(2 * root + 1, r - (4 * root + 1), m2, i - 1)
    ELSE SqrtDigits(2 * root, r, m2, i - 1)
SqrtPack(rr, E) == RoundPack(0, rr[1], E, rr[2] # 0)
\* x.m * 2^x.e = m2 * 2^24 * 2^(2 * E) with m2 = 2 * x.m or 4 * x.m
SqrtNorm(x) ==
    IF x.e % 2 = 0
    THEN SqrtPack(SqrtDigits(0, 0, 4 * x.m, 24), (x.e - 26) \div 2)
    ELSE SqrtPack(SqrtDigits(0, 0, 2 * x.m, 24), (x.e - 25) \div 2)

\* sqrtf
FSqrt(a) ==
    IF IsNaN(a) THEN NaN
    ELSE IF IsIndeterminate(a) THEN Indeterminate
    ELSE IF IsZero(a) THEN a
    ELSE IF a.s = 1 THEN NaN
    ELSE IF IsInf(a) THEN a
    ELSE SqrtNorm(Norm(a))

\* the float literal nearest to n/d
FLit(n, d) == FDiv(FromInt(n), FromInt(d))

-----------------------------------------------------------------------------
(* the profile record and the synthesizers                                 *)

SC_ACCEL_JERK_UP == 0
SC_ACCEL_CONST == 1
SC_ACCEL_JERK_DOWN == 2
SC_CRUISE == 3
SC_DECEL_JERK_UP == 4
SC_DECEL_CONST == 5
SC_DECEL_JERK_DOWN == 6

SC_PROFILE_FULL == 0
SC_PROFILE_NO_CRUISE == 1
SC_PROFILE_TRIANGULAR == 2
SC_PROFILE_REDUCED == 3

Phases == 0..6

F0 == Zero(0)
F2 == FromInt(2)
F60 == FromInt(60)
FHalf == FLit(1, 2)
FSixth == FLit(1, 6)
FTenth == FLit(1, 10)

\* struct SCurveProfile
SCurveProfile(td, mv, ma, mj, T, S, V, tt, cv, at, dt, pt, valid) ==
    [total_distance |-> td, max_velocity |-> mv, max_acceleration |-> ma,
     max_jerk |-> mj, T |-> T, S |-> S, V |-> V, total_time |-> tt,
     cruise_velocity |-> cv, accel_time |-> at, decel_time |-> dt,
     profile_type |-> pt, valid |-> valid]

\* for (i = 0; i < 7; i++) acc += A[i], from acc = 0.0f
RECURSIVE SumTo(_, _)
SumTo(A, k) == IF k < 0 THEN F0 ELSE FAdd(SumTo(A, k - 1), A[k])
SumAll(A) == SumTo(A, 6)

\* The distance validation of calculate_s_curve_profile:
\* fabsf(total_calc - distance) > 0.1f
DistanceMismatch(S, distance) ==
    FGt(FAbs(FSub(SumAll(S), distance)), FTenth)

\* What calculate_s_curve_profile returns when the validation fails.
\* total_distance and the three limits are never written on this path:
\* g, the contents of the memory the local profile was placed in, shows
\* through in them.
MismatchReturn(g, T, S, V, tt, cv, at, dt, pt) ==
    SCurveProfile(g.total_distance, g.max_velocity, g.max_acceleration,
                  g.max_jerk, T, S, V, tt, cv, at, dt, pt, FALSE)

\* The locals of calculate_s_curve_profile after its initialisation: the
\* speeds in mm/s and the phase arrays zeroed.  garbage holds the
\* contents of the fields of the local profile that are not yet written.
ProfileLocals(distance, entry_speed, exit_speed, max_velocity, max_acceleration, max_jerk, g) ==
    [distance |-> distance, max_velocity |-> max_velocity,
     max_acceleration |-> max_acceleration, max_jerk |-> max_jerk,
     garbage |-> g, profile_type |-> SC_PROFILE_FULL,
     v_entry |-> FDiv(entry_speed, F60),
     v_exit |-> FDiv(exit_speed, F60),
     v_max |-> FDiv(max_velocity, F60),
     T |-> [i \in Phases |-> F0],
     S |-> [i \in Phases |-> F0],
     V |-> [i \in Phases |-> F0]]

\* The statements of calculate_s_curve_profile in order, each taking the
\* locals l before it to the locals after it.

\* float T_j = max_acceleration / max_jerk
JerkTime(l) == l @@ [T_j |-> FDiv(l.max_acceleration, l.max_jerk)]

\* float v_reachable = v_entry + max_acceleration * T_j
ReachableVelocity(l) ==
    l @@ [v_reachable |-> FAdd(l.v_entry, FMul(l.max_acceleration, l.T_j))]

\* if (v_reachable > v_max) { v_reachable = v_max; T_j = ... }
ClampToMaxVelocity(l) ==
    IF FGt(l.v_reachable, l.v_max)
    THEN [l EXCEPT !.v_reachable = l.v_max,
                   !.T_j = FDiv(FSub(l.v_max, l.v_entry), l.max_acceleration)]
    ELSE l

\* if (v_reachable > v_max) v_reachable = v_max, inside the meeting point
CapMeetingPoint(l) ==
    IF FGt(l.v_reachable, l.v_max) THEN [l EXCEPT !.v_reachable = l.v_max]
    ELSE l

\* if (v_reachable > v_decel_start) { v_reachable = meeting point; ... }
MeetingPoint(l) ==
    IF FGt(l.v_reachable, FAdd(l.v_exit, FMul(l.max_acceleration, l.T_j)))
    THEN CapMeetingPoint(
           [l EXCEPT !.v_reachable =
               FDiv(FAdd(FAdd(l.v_entry, l.v_exit),
                         FMul(FMul(l.max_acceleration, F2), l.T_j)), F2)])
    ELSE l

\* float T_accel_total = dv_accel / max_acceleration + T_j
\* (T_decel_total is written and never read)
AccelPhase(l) ==
    l @@ [T_accel_total |->
             FAdd(FDiv(FSub(l.v_reachable, l.v_entry), l.max_acceleration),
                  l.T_j)]

\* float S_accel_jerk = ...; float T_accel_const = T_accel_total - 2 * T_j
AccelJerkDistance(l) ==
    l @@ [S_accel_jerk |->
             FAdd(FMul(l.v_entry, l.T_j),
                  FMul(FMul(FMul(FHalf, l.max_acceleration), l.T_j), l.T_j)),
          T_accel_const |-> FSub(l.T_accel_total, FMul(F2, l.T_j))]

\* float S_accel_const = 0; if (T_accel_const > 0) { ... }
AccelConstDistance(l) ==
    l @@ [S_accel_const |->
             IF FGt(l.T_accel_const, F0)
             THEN FAdd(FMul(FAdd(l.v_entry, FMul(l.max_acceleration, l.T_j)),
                            l.T_accel_const),
                       FMul(FMul(FMul(FHalf, l.max_acceleration),
                                 l.T_accel_const), l.T_accel_const))
             ELSE F0]

\* float S_accel_total = S_accel_jerk + S_accel_const + S_accel_jerk_down
AccelDistance(l) ==
    l @@ [S_accel_total |->
             FAdd(FAdd(l.S_accel_jerk, l.S_accel_const), l.S_accel_jerk)]

\* float S_cruise = distance - S_accel_total - S_decel_total
CruiseDistance(l) ==
    l @@ [S_cruise |->
             FSub(FSub(l.distance, l.S_accel_total), l.S_accel_total)]

\* The recalculation for the triangular profile from total_dv
Triangular(l) ==
    [l EXCEPT !.v_reachable = FAdd(l.v_entry, FDiv(l.total_dv, F2)),
              !.T_accel_total = FDiv(l.total_dv, FMul(F2, l.max_acceleration)),
              !.S_accel_total = FDiv(l.distance, F2),
              !.S_cruise = F0]

\* ProfileShape without the triangular recalculation
ProfileShape_no_triangular(l) ==
    IF FGt(l.S_cruise, F0)
    THEN [l EXCEPT !.profile_type = SC_PROFILE_FULL]
         @@ [T_cruise |-> FDiv(l.S_cruise, l.v_reachable)]
    ELSE [l EXCEPT !.S_cruise = F0, !.profile_type = SC_PROFILE_NO_CRUISE]
         @@ [T_cruise |-> F0]

\* float T_cruise = 0; if (S_cruise > 0) ... else if (S_cruise > -0.1f) ...
\* else ...
ProfileShape(l) ==
    IF FGt(l.S_cruise, F0)
    THEN [l EXCEPT !.profile_type = SC_PROFILE_FULL]
         @@ [T_cruise |-> FDiv(l.S_cruise, l.v_reachable)]
    ELSE IF FGt(l.S_cruise, FNeg(FTenth))
    THEN [l EXCEPT !.S_cruise = F0, !.profile_type = SC_PROFILE_NO_CRUISE]
         @@ [T_cruise |-> F0]
    ELSE Triangular(
           [l EXCEPT !.profile_type = SC_PROFILE_TRIANGULAR]
           @@ [T_cruise |-> F0,
               total_dv |->
                  FDiv(FMul(FMul(l.distance, F2), l.max_acceleration),
                       FAdd(FMul(F2, l.v_entry),
                            FMul(FMul(l.max_acceleration, F2), l.T_j)))])

\* Phase 1: acceleration jerk up
AccelJerkUp(l) ==
    [l EXCEPT
       !.T[SC_ACCEL_JERK_UP] = l.T_j,
       !.S[SC_ACCEL_JERK_UP] =
           FAdd(FMul(l.v_entry, l.T_j),
                FMul(FMul(FMul(FMul(FSixth, l.max_jerk), l.T_j), l.T_j), l.T_j)),
       !.V[SC_ACCEL_JERK_UP] =
           FMul(FAdd(l.v_entry, FMul(FMul(FHalf, l.max_acceleration), l.T_j)),
                F60)]

\* profile.T[1] = fmaxf(0, T_accel_total - 2 * T_j)
AccelConstDuration(l) ==
    [l EXCEPT !.T[SC_ACCEL_CONST] =
                  FMax(F0, FSub(l.T_accel_total, FMul(F2, l.T_j)))]

\* float v_start = v_entry + max_acceleration * T_j
VStart(l) == FAdd(l.v_entry, FMul(l.max_acceleration, l.T_j))

\* Phase 2: if (profile.T[1] > 0) { ... } else { ... }
AccelConst(l) ==
    IF FGt(l.T[SC_ACCEL_CONST], F0)
    THEN [l EXCEPT
            !.S[SC_ACCEL_CONST] =
                FAdd(FMul(VStart(l), l.T[SC_ACCEL_CONST]),
                     FMul(FMul(FMul(FHalf, l.max_acceleration),
                               l.T[SC_ACCEL_CONST]), l.T[SC_ACCEL_CONST])),
            !.V[SC_ACCEL_CONST] =
                FMul(FAdd(VStart(l),
                          FMul(l.max_acceleration, l.T[SC_ACCEL_CONST])), F60)]
    ELSE [l EXCEPT !.S[SC_ACCEL_CONST] = F0,
                   !.V[SC_ACCEL_CONST] = l.V[SC_ACCEL_JERK_UP]]

\* Phase 3: acceleration jerk down
AccelJerkDown(l) ==
    [l EXCEPT
       !.T[SC_ACCEL_JERK_DOWN] = l.T_j,
       !.S[SC_ACCEL_JERK_DOWN] =
           FSub(FSub(l.S_accel_total, l.S[SC_ACCEL_JERK_UP]),
                l.S[SC_ACCEL_CONST]),
       !.V[SC_ACCEL_JERK_DOWN] = FMul(l.v_reachable, F60)]

\* Phase 4: cruise
Cruise(l) ==
    [l EXCEPT !.T[SC_CRUISE] = l.T_cruise,
              !.S[SC_CRUISE] = l.S_cruise,
              !.V[SC_CRUISE] = FMul(l.v_reachable, F60)]

\* Deceleration with V[6] mirrored from V[0] like the distances
Deceleration_mirrored(l) ==
    [l EXCEPT
       !.T[SC_DECEL_JERK_UP] = l.T_j,
       !.T[SC_DECEL_CONST] = l.T[SC_ACCEL_CONST],
       !.T[SC_DECEL_JERK_DOWN] = l.T_j,
       !.S[SC_DECEL_JERK_UP] = l.S[SC_ACCEL_JERK_DOWN],
       !.S[SC_DECEL_CONST] = l.S[SC_ACCEL_CONST],
       !.S[SC_DECEL_JERK_DOWN] = l.S[SC_ACCEL_JERK_UP],
       !.V[SC_DECEL_JERK_UP] = l.V[SC_ACCEL_JERK_DOWN],
       !.V[SC_DECEL_CONST] = l.V[SC_ACCEL_CONST],
       !.V[SC_DECEL_JERK_DOWN] = l.V[SC_ACCEL_JERK_UP]]

\* Phases 5-7: symmetric deceleration
Deceleration(l) ==
    [l EXCEPT
       !.T[SC_DECEL_JERK_UP] = l.T_j,
       !.T[SC_DECEL_CONST] = l.T[SC_ACCEL_CONST],
       !.T[SC_DECEL_JERK_DOWN] = l.T_j,
       !.S[SC_DECEL_JERK_UP] = l.S[SC_ACCEL_JERK_DOWN],
       !.S[SC_DECEL_CONST] = l.S[SC_ACCEL_CONST],
       !.S[SC_DECEL_JERK_DOWN] = l.S[SC_ACCEL_JERK_UP],
       !.V[SC_DECEL_JERK_UP] = l.V[SC_ACCEL_JERK_DOWN],
       !.V[SC_DECEL_CONST] = l.V[SC_ACCEL_CONST],
       !.V[SC_DECEL_JERK_DOWN] = FMul(l.v_exit, F60)]

\* Precompute values for real-time execution
Precompute(l) ==
    l @@ [total_time |-> SumAll(l.T),
          cruise_velocity |-> FMul(l.v_reachable, F60),
          accel_time |->
             FAdd(FAdd(l.T[SC_ACCEL_JERK_UP], l.T[SC_ACCEL_CONST]),
                  l.T[SC_ACCEL_JERK_DOWN]),
          decel_time |->
             FAdd(FAdd(l.T[SC_DECEL_JERK_UP], l.T[SC_DECEL_CONST]),
                  l.T[SC_DECEL_JERK_DOWN])]

\* Validate total distance, and return
ValidateDistance(l) ==
    IF DistanceMismatch(l.S, l.distance)
    THEN MismatchReturn(l.garbage, l.T, l.S, l.V, l.total_time,
                        l.cruise_velocity, l.accel_time, l.decel_time,
                        l.profile_type)
    ELSE SCurveProfile(l.distance, l.max_velocity, l.max_acceleration,
                       l.max_jerk, l.T, l.S, l.V, l.total_time,
                       l.cruise_velocity, l.accel_time, l.decel_time,
                       l.profile_type, TRUE)

\* The velocities and the jerk time
VelocityStage(l) ==
    MeetingPoint(ClampToMaxVelocity(ReachableVelocity(JerkTime(l))))

\* The distances of the acceleration and the cruise
DistanceStage(l) ==
    CruiseDistance(AccelDistance(AccelConstDistance(AccelJerkDistance(
        AccelPhase(l)))))

\* Populate profile phases
PopulateStage(l) ==
    Deceleration(Cruise(AccelJerkDown(AccelConst(AccelConstDuration(
        AccelJerkUp(l))))))

\* What calculate_s_curve_profile returns from its basic validation: the
\* phase arrays are zeroed, the limits and total_distance are not written
ProfileEarlyReturn(g) ==
    SCurveProfile(g.total_distance, g.max_velocity, g.max_acceleration,
                  g.max_jerk, [i \in Phases |-> F0], [i \in Phases |-> F0],
                  [i \in Phases |-> F0], F0, F0, F0, F0, SC_PROFILE_FULL, FALSE)

calculate_s_curve_profile(distance, entry_speed, exit_speed, max_velocity, max_acceleration, max_jerk, g) ==
    IF FLe(max_jerk, F0) \/ FLe(max_acceleration, F0) \/ FLe(distance, F0)
    THEN ProfileEarlyReturn(g)
    ELSE ValidateDistance(Precompute(PopulateStage(ProfileShape(DistanceStage(
             VelocityStage(ProfileLocals(distance, entry_speed, exit_speed,
                 max_velocity, max_acceleration, max_jerk, g)))))))

\* What calculate_s_curve_fast returns from its quick validation: the
\* local profile is declared without an initializer and only valid,
\* profile_type and the four precomputed values are written, so the arrays
\* and limits hold indeterminate contents g.
FastEarlyReturn(g) ==
    SCurveProfile(g.total_distance, g.max_velocity, g.max_acceleration,
                  g.max_jerk, g.T, g.S, g.V, F0, F0, F0, F0,
                  SC_PROFILE_REDUCED, FALSE)

\* UseReduced with the thresholds of 50 mm and 100 mm/min
UseReduced_wide(distance, entry_speed, exit_speed) ==
    FLt(distance, FromInt(50)) \/ FLt(FAbs(FSub(entry_speed, exit_speed)), FromInt(100))

\* The test that selects the simplified computation
UseReduced(distance, entry_speed, exit_speed) ==
    FLt(distance, FromInt(10)) \/ FLt(FAbs(FSub(entry_speed, exit_speed)), FromInt(50))

\* The fixed shares of the total time given to the seven phases
Weights == <<FLit(15, 100), FLit(20, 100), FLit(15, 100), FLit(30, 100),
             FLit(15, 100), FLit(5, 100), F0>>

\* The simplified profile from its phase durations: V and the limits are
\* never written
ReducedProfile(distance, avg_speed, total_time, T, g) ==
    SCurveProfile(distance, g.max_velocity, g.max_acceleration, g.max_jerk, T,
                  [i \in Phases |-> FDiv(FMul(distance, T[i]), total_time)],
                  g.V, total_time, avg_speed, F0, F0,
                  SC_PROFILE_REDUCED, TRUE)

\* Distribute time across phases
ReducedTimes(distance, avg_speed, total_time, g) ==
    ReducedProfile(distance, avg_speed, total_time,
                   [i \in Phases |-> FMul(total_time, Weights[i + 1])], g)

\* float total_time = distance / (avg_speed / 60.0f)
ReducedTotal(distance, avg_speed, g) ==
    ReducedTimes(distance, avg_speed, FDiv(distance, FDiv(avg_speed, F60)), g)

calculate_s_curve_fast(distance, entry_speed, exit_speed, max_velocity, max_acceleration, max_jerk, g) ==
    IF FLe(max_jerk, F0) \/ FLe(max_acceleration, F0) \/ FLe(distance, F0)
    THEN FastEarlyReturn(g)
    ELSE IF UseReduced(distance, entry_speed, exit_speed)
    THEN ReducedTotal(distance, FDiv(FAdd(entry_speed, exit_speed), F2), g)
    ELSE calculate_s_curve_profile(distance, entry_speed, exit_speed,
                                   max_velocity, max_acceleration, max_jerk, g)

-----------------------------------------------------------------------------
(* junction velocity, configuration validation and the usage decision      *)

F4 == FromInt(4)
F10 == FromInt(10)
F100 == FromInt(100)
F1 == FromInt(1)

\* JunctionLimit with the jerk limit applied to short segments too
JunctionLimit_jerk_only(max_acceleration, max_jerk, angle_factor, min_distance, min_move_distance) ==
    FMul(FSqrt(FMul(FDiv(FMul(max_acceleration, max_acceleration), max_jerk),
                    angle_factor)), F60)

\* if (min_move_distance < min_distance * 2) ... sqrtf(...) * 60.0f
JunctionLimit(max_acceleration, max_jerk, angle_factor, min_distance, min_move_distance) ==
    IF FLt(min_move_distance, FMul(min_distance, F2))
    THEN FMul(FSqrt(FMul(FMul(min_move_distance, max_acceleration),
                         angle_factor)), F60)
    ELSE FMul(FSqrt(FMul(FDiv(FMul(max_acceleration, max_acceleration),
                              max_jerk), angle_factor)), F60)

\* float min_distance = max_acceleration * T_j * T_j;
\* float min_move_distance = fminf(distance1, distance2)
JunctionDistances(distance1, distance2, max_acceleration, max_jerk, angle_factor, T_j) ==
    JunctionLimit(max_acceleration, max_jerk, angle_factor,
                  FMul(FMul(max_acceleration, T_j), T_j),
                  FMin(distance1, distance2))

calculate_s_curve_junction_velocity(distance1, distance2, max_acceleration, max_jerk, angle_factor) ==
    IF FLe(max_jerk, F0) \/ FLe(max_acceleration, F0) THEN F0
    ELSE JunctionDistances(distance1, distance2, max_acceleration, max_jerk,
                           angle_factor, FDiv(max_acceleration, max_jerk))

\* static const char* no_error = nullptr
no_error == "nullptr"

\* What validate_s_curve_config hands back: its result and *error_msg
ConfigResult(ok, error_msg) == [ok |-> ok, error_msg |-> error_msg]

\* The checks of the time to reach the acceleration
ValidateRampTime(time_to_accel) ==
    IF FGt(time_to_accel, F1)
    THEN ConfigResult(FALSE, "max_jerk_mm_per_sec3 too small - would take > 1 second to reach max acceleration")
    ELSE IF FLt(time_to_accel, FLit(1, 1000))
    THEN ConfigResult(FALSE, "max_jerk_mm_per_sec3 too large - acceleration ramp time < 1ms")
    ELSE ConfigResult(TRUE, no_error)

\* validate_s_curve_config with the disabled value 0 taken for a negative one
validate_s_curve_config_no_zero(max_jerk, max_acceleration, max_velocity) ==
    IF FLe(max_jerk, F0)
    THEN ConfigResult(FALSE, "max_jerk_mm_per_sec3 cannot be negative")
    ELSE IF FLt(max_jerk, FDiv(max_acceleration, F10))
    THEN ConfigResult(FALSE, "max_jerk_mm_per_sec3 too small compared to acceleration (min 1/10 of acceleration)")
    ELSE IF FGt(max_jerk, FMul(max_acceleration, F100))
    THEN ConfigResult(FALSE, "max_jerk_mm_per_sec3 too large compared to acceleration (max 100x acceleration)")
    ELSE ValidateRampTime(FDiv(max_acceleration, max_jerk))

validate_s_curve_config(max_jerk, max_acceleration, max_velocity) ==
    IF FLt(max_jerk, F0)
    THEN ConfigResult(FALSE, "max_jerk_mm_per_sec3 cannot be negative")
    ELSE IF FEq(max_jerk, F0)
    THEN ConfigResult(TRUE, no_error)
    ELSE IF FLt(max_jerk, FDiv(max_acceleration, F10))
    THEN ConfigResult(FALSE, "max_jerk_mm_per_sec3 too small compared to acceleration (min 1/10 of acceleration)")
    ELSE IF FGt(max_jerk, FMul(max_acceleration, F100))
    THEN ConfigResult(FALSE, "max_jerk_mm_per_sec3 too large compared to acceleration (max 100x acceleration)")
    ELSE ValidateRampTime(FDiv(max_acceleration, max_jerk))

\* BeneficialJerkTime with the bounds of the jerk time excluded
BeneficialJerkTime_open(distance, max_acceleration, T_j) ==
    IF FLt(distance, FMul(FMul(FMul(max_acceleration, T_j), T_j), F4))
    THEN FALSE
    ELSE IF FLe(T_j, FLit(5, 1000)) THEN FALSE
    ELSE IF FGe(T_j, FHalf) THEN FALSE
    ELSE TRUE

\* The tests of should_use_s_curve on the distance and the jerk time
BeneficialJerkTime(distance, max_acceleration, T_j) ==
    IF FLt(distance, FMul(FMul(FMul(max_acceleration, T_j), T_j), F4))
    THEN FALSE
    ELSE IF FLt(T_j, FLit(5, 1000)) THEN FALSE
    ELSE IF FGt(T_j, FHalf) THEN FALSE
    ELSE TRUE

should_use_s_curve(distance, max_jerk, max_acceleration) ==
    IF FLe(max_jerk, F0) \/ FLe(max_acceleration, F0) THEN FALSE
    ELSE BeneficialJerkTime(distance, max_acceleration,
                            FDiv(max_acceleration, max_jerk))

-----------------------------------------------------------------------------
(* the real-time evaluators                                                *)

\* The closed-form acceleration of each phase at phase_time
PhaseAcceleration(profile, phase, phase_time) ==
    CASE phase = SC_ACCEL_JERK_UP -> FMul(profile.max_jerk, phase_time)
      [] phase = SC_ACCEL_CONST -> profile.max_acceleration
      [] phase = SC_ACCEL_JERK_DOWN ->
            FSub(profile.max_acceleration, FMul(profile.max_jerk, phase_time))
      [] phase = SC_CRUISE -> F0
      [] phase = SC_DECEL_JERK_UP -> FMul(FNeg(profile.max_jerk), phase_time)
      [] phase = SC_DECEL_CONST -> FNeg(profile.max_acceleration)
      [] phase = SC_DECEL_JERK_DOWN ->
            FAdd(FNeg(profile.max_acceleration), FMul(profile.max_jerk, phase_time))

\* The loop of s_curve_acceleration_at_time from (phase, t)
RECURSIVE AccelerationScan(_, _, _, _)
AccelerationScan(profile, time, phase, t) ==
    IF phase > 6 THEN F0
    ELSE IF FLe(time, FAdd(t, profile.T[phase]))
         THEN PhaseAcceleration(profile, phase, FSub(time, t))
         ELSE AccelerationScan(profile, time, phase + 1, FAdd(t, profile.T[phase]))

s_curve_acceleration_at_time(profile, time) ==
    IF ~profile.valid THEN F0 ELSE AccelerationScan(profile, time, 0, F0)

\* The velocity (mm/s) after phase_time of a phase entered at velocity
PhaseVelocity(profile, phase, velocity, phase_time) ==
    LET a == profile.max_acceleration
        j == profile.max_jerk
        jerk_dv == FMul(FMul(FMul(FHalf, j), phase_time), phase_time)
        ramp_dv == FSub(FMul(a, phase_time), jerk_dv)
    IN CASE phase = SC_ACCEL_JERK_UP -> FAdd(velocity, jerk_dv)
         [] phase = SC_ACCEL_CONST -> FAdd(velocity, FMul(a, phase_time))
         [] phase = SC_ACCEL_JERK_DOWN -> FAdd(velocity, ramp_dv)
         [] phase = SC_CRUISE -> velocity
         [] phase = SC_DECEL_JERK_UP -> FSub(velocity, jerk_dv)
         [] phase = SC_DECEL_CONST -> FSub(velocity, FMul(a, phase_time))
         [] phase = SC_DECEL_JERK_DOWN -> FSub(velocity, ramp_dv)

\* The loop of s_curve_velocity_at_time from (phase, t, velocity); mm/s
RECURSIVE VelocityScan(_, _, _, _, _)
VelocityScan(profile, time, phase, t, velocity) ==
    IF phase > 6 THEN velocity
    ELSE LET phase_duration == profile.T[phase]
         IN IF FLe(time, FAdd(t, phase_duration))
            THEN PhaseVelocity(profile, phase, velocity, FSub(time, t))
            ELSE VelocityScan(profile, time, phase + 1, FAdd(t, phase_duration),
                              IF FGt(phase_duration, F0)
                              THEN FDiv(profile.V[phase], F60)
                              ELSE velocity)

\* s_curve_velocity_at_time without its test of the valid flag
s_curve_velocity_at_time_unchecked(profile, time, entry_speed) ==
    FMul(VelocityScan(profile, time, 0, F0, FDiv(entry_speed, F60)), F60)

s_curve_velocity_at_time(profile, time, entry_speed) ==
    IF ~profile.valid THEN entry_speed
    ELSE FMul(VelocityScan(profile, time, 0, F0, FDiv(entry_speed, F60)), F60)

\* The contribution of the phase that contains time: the velocity at the
\* middle of the elapsed part of the phase times the elapsed part
PartialPhaseDistance(profile, t, phase_time, entry_speed) ==
    LET avg_velocity ==
            FDiv(s_curve_velocity_at_time(profile,
                     FAdd(t, FDiv(phase_time, F2)), entry_speed), F60)
    IN FMul(avg_velocity, phase_time)

\* The loop of s_curve_position_at_time from (phase, t, position)
RECURSIVE PositionScan(_, _, _, _, _, _)
PositionScan(profile, time, entry_speed, phase, t, position) ==
    IF phase > 6 THEN position
    ELSE LET phase_duration == profile.T[phase]
         IN IF FLe(time, FAdd(t, phase_duration))
            THEN FAdd(position,
                      PartialPhaseDistance(profile, t, FSub(time, t), entry_speed))
            ELSE PositionScan(profile, time, entry_speed, phase + 1,
                              FAdd(t, phase_duration),
                              FAdd(position, profile.S[phase]))

s_curve_position_at_time(profile, time, entry_speed) ==
    IF ~profile.valid THEN F0
    ELSE PositionScan(profile, time, entry_speed, 0, F0, F0)

-----------------------------------------------------------------------------
(* the planner synthesizes one profile for a move, then the execution      *)
(* context queries the evaluators                                          *)

VARIABLES args, via, profile, last

vars == <<args, via, profile, last>>

\* Arguments of the synthesizers: mm, mm/min, mm/min, mm/min, and pairs of
\* mm/s^2 and mm/s^3.  The moves the planner synthesizes profiles for:
Distances == {-5, 0, 2, 8, 10, 100, 2000000}
EntrySpeeds == {0, 1000, 6000}
ExitSpeeds == {0, 60, 1000}
MaxVelocities == {1500, 3000}
Limits == {<<500, 5000>>, <<1000, 50000>>, <<0, 5000>>, <<500, 0>>}

\* The moves whose profiles are also handed to the execution context:
ExecDistances == {0, 2, 100, 2000000}
ExecEntrySpeeds == {0, 6000}
ExecExitSpeeds == {0, 1000}
ExecMaxVelocities == {1500, 3000}
ExecLimits == {<<500, 5000>>, <<1000, 50000>>}

Moves(D, En, Ex, Mv, L) ==
    { [distance |-> FromInt(d), entry_speed |-> FromInt(en),
       exit_speed |-> FromInt(ex), max_velocity |-> FromInt(mv),
       max_acceleration |-> FromInt(l[1]), max_jerk |-> FromInt(l[2])] :
      d \in D, en \in En, ex \in Ex, mv \in Mv, l \in L }

\* The local profile of a synthesizer is declared without an initializer:
\* a field the function never writes returns what its memory held before.
\* Uninitialized(f) is the profile as declared, over memory holding the float
\* f[k] in its k-th word: total_distance, the three limits, T, S and V.
Uninitialized(f) ==
    [total_distance |-> f[0], max_velocity |-> f[1],
     max_acceleration |-> f[2], max_jerk |-> f[3],
     T |-> [i \in Phases |-> f[4 + i]],
     S |-> [i \in Phases |-> f[11 + i]],
     V |-> [i \in Phases |-> f[18 + i]]]

\* Floats left behind by earlier frames: negative, denormal, zero of either
\* sign, huge, not-a-number (quiet and signalling) and infinite
StaleFloats ==
    <<Fin(1, 14090000, -147), Fin(0, 32766, MinExp), Zero(0), Zero(1),
      Fin(0, 8488500, 102), NaN, Fin(0, 6, MinExp), Inf(0), SNaN>>

\* Memory contents the local profile may be placed in: fresh zero pages, a
\* region filled with one value, regions of distinct consecutive values,
\* stale floats of earlier frames, a different one in each field; and, for
\* every other content and for whatever the compiler substitutes for a
\* field it knows to be unwritten, memory of indeterminate floats
MemoryContents ==
    { [k \in 0..24 |-> F0],
      [k \in 0..24 |-> FromInt(7)],
      [k \in 0..24 |-> FromInt(40 + k)],
      [k \in 0..24 |-> FromInt(92 + k)],
      [k \in 0..24 |-> StaleFloats[((k * 2) % 9) + 1]],
      [k \in 0..24 |-> Indeterminate] }

\* The profiles "SCurveProfile profile;" may start from
Garbage == { Uninitialized(f) : f \in MemoryContents }

\* Elapsed times the evaluators are queried at: a grid of MaxTick ticks,
\* every phase end of the profile and one millisecond after it
MaxTick == 3
TickStep == FLit(3, 4)
Eps == FLit(1, 1000)
PhaseEnd(p, k) == SumTo(p.T, k)
QueryTimes(p) ==
    { t \in { FMul(FromInt(k), TickStep) : k \in 0..MaxTick }
            \cup { PhaseEnd(p, k) : k \in Phases }
            \cup { FAdd(PhaseEnd(p, k), Eps) : k \in Phases } : t.c = "fin" }

\* The execution context passes the entry speed of the move
QuerySpeeds == {args.entry_speed}

NoProfile ==
    LET zeros == [i \in Phases |-> F0]
    IN SCurveProfile(F0, F0, F0, F0, zeros, zeros, zeros, F0, F0, F0, F0,
                     SC_PROFILE_FULL, FALSE)
NoCall == [fn |-> "none", t |-> F0, e |-> F0, r |-> F0]

Init ==
    /\ args \in Moves(ExecDistances, ExecEntrySpeeds, ExecExitSpeeds,
                      ExecMaxVelocities, ExecLimits)
    /\ via = "none"
    /\ profile = NoProfile
    /\ last = NoCall

SynthInit ==
    /\ args \in Moves(Distances, EntrySpeeds, ExitSpeeds, MaxVelocities, Limits)
    /\ via = "none"
    /\ profile = NoProfile
    /\ last = NoCall

CallProfile ==
    /\ via = "none"
    /\ \E g \in Garbage :
         profile' = calculate_s_curve_profile(args.distance, args.entry_speed,
                        args.exit_speed, args.max_velocity,
                        args.max_acceleration, args.max_jerk, g)
    /\ via' = "profile"
    /\ UNCHANGED <<args, last>>

CallFast ==
    /\ via = "none"
    /\ \E g \in Garbage :
         profile' = calculate_s_curve_fast(args.distance, args.entry_speed,
                        args.exit_speed, args.max_velocity,
                        args.max_acceleration, args.max_jerk, g)
    /\ via' = "fast"
    /\ UNCHANGED <<args, last>>

QueryAcceleration ==
    /\ via # "none"
    /\ \E t \in QueryTimes(profile) :
         last' = [fn |-> "acceleration", t |-> t, e |-> F0,
                  r |-> s_curve_acceleration_at_time(profile, t)]
    /\ UNCHANGED <<args, via, profile>>

QueryVelocity ==
    /\ via # "none"
    /\ \E t \in QueryTimes(profile), e \in QuerySpeeds :
         last' = [fn |-> "velocity", t |-> t, e |-> e,
                  r |-> s_curve_velocity_at_time(profile, t, e)]
    /\ UNCHANGED <<args, via, profile>>

QueryPosition ==
    /\ via # "none"
    /\ \E t \in QueryTimes(profile), e \in QuerySpeeds :
         last' = [fn |-> "position", t |-> t, e |-> e,
                  r |-> s_curve_position_at_time(profile, t, e)]
    /\ UNCHANGED <<args, via, profile>>

Next ==
    \/ CallProfile
    \/ CallFast
    \/ QueryAcceleration
    \/ QueryVelocity
    \/ QueryPosition

\* Planner and execution context
Spec == Init /\ [][Next]_vars

\* The planner alone, over all the moves
SynthNext ==
    \/ CallProfile
    \/ CallFast

SynthSpec == SynthInit /\ [][SynthNext]_vars

\* The planner's usage decision and junction estimate and the configuration
\* loader's validation: mm/s^3, mm/s^2, mm/min, mm, mm, and quarters
ConfigJerks == {-1, 0, 5, 50, 199, 200, 201, 1000, 5000, 20000}
ConfigAccelerations == {-100, 0, 1, 100, 500}
ConfigVelocities == {1000}
SegmentLengths == {0, 2, 3, 4, 19, 20, 21, 100}
NextSegmentLengths == {2, 50}
AngleQuarters == {-1, 0, 1, 2, 4}
AngleFactors == { FLit(q, 4) : q \in AngleQuarters }

PlannerInit ==
    /\ args \in { [max_jerk |-> FromInt(j), max_acceleration |-> FromInt(a),
                   max_velocity |-> FromInt(mv), distance |-> FromInt(d1),
                   distance2 |-> FromInt(d2), angle_factor |-> af] :
                  j \in ConfigJerks, a \in ConfigAccelerations,
                  mv \in ConfigVelocities, d1 \in SegmentLengths,
                  d2 \in NextSegmentLengths, af \in AngleFactors }
    /\ via = "none"
    /\ profile = NoProfile
    /\ last = NoCall

CallValidate ==
    /\ last' = [fn |-> "validate", t |-> F0, e |-> F0,
                r |-> validate_s_curve_config(args.max_jerk,
                          args.max_acceleration, args.max_velocity)]
    /\ UNCHANGED <<args, via, profile>>

CallShouldUse ==
    /\ last' = [fn |-> "should_use", t |-> F0, e |-> F0,
                r |-> should_use_s_curve(args.distance, args.max_jerk,
                                         args.max_acceleration)]
    /\ UNCHANGED <<args, via, profile>>

CallJunction ==
    /\ last' = [fn |-> "junction", t |-> F0, e |-> F0,
                r |-> calculate_s_curve_junction_velocity(args.distance,
                          args.distance2, args.max_acceleration,
                          args.max_jerk, args.angle_factor)]
    /\ UNCHANGED <<args, via, profile>>

PlannerNext ==
    \/ CallValidate
    \/ CallShouldUse
    \/ CallJunction

\* The decisions taken outside the synthesis of a move
PlannerSpec == PlannerInit /\ [][PlannerNext]_vars

-----------------------------------------------------------------------------
(* properties                                                              *)

\* a and b are equal, or differ by at most tol
Within(a, b, tol) == FEq(a, b) \/ FLe(FAbs(FSub(a, b)), tol)

AllZero(A) == \A i \in Phases : FEq(A[i], F0)

\* The arguments pass the basic validation of the synthesizers
PositiveInputs ==
    /\ FGt(args.distance, F0)
    /\ FGt(args.max_acceleration, F0)
    /\ FGt(args.max_jerk, F0)

Returned == via # "none"

\* C1: in every profile returned with valid = true by either synthesizer the
\* seven phase distances sum to the requested distance within 0.1 mm.
C1_DistanceConserved ==
    (Returned /\ profile.valid) =>
        FLe(FAbs(FSub(SumAll(profile.S), args.distance)), FTenth)

\* C2: called with distance <= 0, max_acceleration <= 0 or max_jerk <= 0,
\* both synthesizers return valid = false with T, S and V all zero.
C2_RejectedInputZeroed ==
    (Returned /\ ~PositiveInputs) =>
        /\ ~profile.valid
        /\ AllZero(profile.T) /\ AllZero(profile.S) /\ AllZero(profile.V)

\* C3: when calculate_s_curve_profile finds the phase distances to sum to
\* more than 0.1 mm away from the requested distance, it returns valid = false
\* and T, S and V are all zero in the returned profile.
C3_MismatchZeroed ==
    (via = "profile" /\ PositiveInputs
        /\ DistanceMismatch(profile.S, args.distance)) =>
        /\ ~profile.valid
        /\ AllZero(profile.T) /\ AllZero(profile.S) /\ AllZero(profile.V)

\* C4: in every profile returned with valid = true by
\* calculate_s_curve_profile every phase duration is >= 0.
C4_DurationsNonNegative ==
    (via = "profile" /\ profile.valid) =>
        \A i \in Phases : FGe(profile.T[i], F0)

\* C5: in every profile returned with valid = true, total_time is the sum of
\* the seven phase durations within 1e-4 s; from calculate_s_curve_profile,
\* accel_time = T[0]+T[1]+T[2], decel_time = T[4]+T[5]+T[6] and
\* total_time = accel_time + T[3] + decel_time.
TimeTol == FLit(1, 10000)
C5_TimeConserved ==
    (Returned /\ profile.valid) =>
        /\ Within(profile.total_time, SumAll(profile.T), TimeTol)
        /\ via = "profile" =>
             /\ FEq(profile.accel_time,
                    FAdd(FAdd(profile.T[0], profile.T[1]), profile.T[2]))
             /\ FEq(profile.decel_time,
                    FAdd(FAdd(profile.T[4], profile.T[5]), profile.T[6]))
             /\ Within(profile.total_time,
                       FAdd(FAdd(profile.accel_time, profile.T[3]),
                            profile.decel_time), TimeTol)

\* C6: on a profile with valid = false, for every time and entry speed,
\* the acceleration is 0, the velocity is the entry speed unchanged and the
\* position is 0, whatever the phase arrays hold.
FallbackSpeeds == { FromInt(n) : n \in EntrySpeeds } \cup QuerySpeeds
C6_InvalidFallback ==
    (Returned /\ ~profile.valid) =>
        /\ \A t \in QueryTimes(profile) :
             /\ s_curve_acceleration_at_time(profile, t) = F0
             /\ \A e \in FallbackSpeeds :
                  /\ s_curve_velocity_at_time(profile, t, e) = e
                  /\ s_curve_position_at_time(profile, t, e) = F0
        /\ last.fn = "acceleration" => last.r = F0
        /\ last.fn = "velocity" => last.r = last.e
        /\ last.fn = "position" => last.r = F0

\* An invalid profile that still carries phase data has been queried for the
\* velocity of a move entered at a non-zero speed.
C6_Witness ==
    /\ Returned /\ ~profile.valid
    /\ ~AllZero(profile.T) /\ ~AllZero(profile.S) /\ ~AllZero(profile.V)
    /\ last.fn = "velocity" /\ ~IsZero(last.e) /\ FGt(last.t, F0)

\* C7: on a valid profile, for every elapsed time t >= 0 greater than the sum
\* of the phase durations the acceleration is 0, the velocity and the
\* position do not depend on t, and the position is the sum of the phase
\* distances.
PastEnd(t) == FGe(t, F0) /\ FGt(t, SumAll(profile.T))
C7_PastEndFrozen ==
    (Returned /\ profile.valid /\ PastEnd(last.t)) =>
        /\ last.fn = "acceleration" => FEq(last.r, F0)
        /\ last.fn = "velocity" =>
             \A t \in QueryTimes(profile) :
                PastEnd(t) =>
                    FEq(last.r, s_curve_velocity_at_time(profile, t, last.e))
        /\ last.fn = "position" => FEq(last.r, SumAll(profile.S))

\* C8: for a valid profile of calculate_s_curve_profile with non-negative
\* entry and exit speeds, position never decreases from a query at t1 >= 0
\* to a query at a later time t2.
C8_PositionMonotone ==
    [][(/\ via = "profile" /\ profile.valid
        /\ FGe(args.entry_speed, F0) /\ FGe(args.exit_speed, F0)
        /\ last.fn = "position" /\ last'.fn = "position"
        /\ FGe(last.t, F0) /\ FLt(last.t, last'.t))
       => FLe(last.r, last'.r)]_vars

\* C9: for a valid profile of calculate_s_curve_profile and every phase k of
\* positive duration before the last, the velocity obtained at the end of
\* phase k by integrating within it equals V[k], the velocity the next phase
\* starts from, within a tolerance of 1 mm/min.
SeamTol == FromInt(1)
C9_SeamContinuity ==
    (via = "profile" /\ profile.valid) =>
        \A k \in 0..5 :
            FGt(profile.T[k], F0) =>
                Within(s_curve_velocity_at_time(profile, PhaseEnd(profile, k),
                                                args.entry_speed),
                       profile.V[k], SeamTol)

\* C10: for every valid profile and phase k, the position at the end time of
\* phase k is the sum S[0] + ... + S[k] of the phase distances, here to
\* within a micrometre.
PositionTol == FLit(1, 1000)
C10_PhaseEndPosition ==
    (Returned /\ profile.valid) =>
        \A k \in Phases :
            PhaseEnd(profile, k).c = "fin" =>
                Within(s_curve_position_at_time(profile, PhaseEnd(profile, k),
                                                args.entry_speed),
                       SumTo(profile.S, k), PositionTol)

\* The integer an integral float stands for
ToInt(x) ==
    IF IsZero(x) THEN 0
    ELSE (IF x.s = 1 THEN 0 - 1 ELSE 1)
         * (IF x.e >= 0 THEN x.m * 2^x.e ELSE x.m \div 2^(0 - x.e))

\* The least integer >= n / d, for n >= 0 and d > 0
CeilDiv(n, d) == (n + d - 1) \div d

\* The rule of the validator that decides for jerk j and acceleration a,
\* in exact arithmetic: 0 accepts, 1..5 are the rejections in order
ConfigRule(j, a) ==
    IF j < 0 THEN 1
    ELSE IF j = 0 THEN 0
    ELSE IF 10 * j < a THEN 2
    ELSE IF j > 100 * a THEN 3
    ELSE IF a > j THEN 4
    ELSE IF 1000 * a < j THEN 5
    ELSE 0
ConfigMessages ==
    <<"max_jerk_mm_per_sec3 cannot be negative",
      "max_jerk_mm_per_sec3 too small compared to acceleration (min 1/10 of acceleration)",
      "max_jerk_mm_per_sec3 too large compared to acceleration (max 100x acceleration)",
      "max_jerk_mm_per_sec3 too small - would take > 1 second to reach max acceleration",
      "max_jerk_mm_per_sec3 too large - acceleration ramp time < 1ms">>
ArgsRule == ConfigRule(ToInt(args.max_jerk), ToInt(args.max_acceleration))

\* C11: validate_s_curve_config applies its rules in order, the first failure
\* winning: a negative jerk rejects, a zero jerk accepts, then jerk below a
\* tenth of the acceleration, jerk above 100 times the acceleration, ramp
\* time above 1 s and ramp time below 1 ms reject; it returns true with a
\* null message on accept and false with that rule's message on reject.
C11_ConfigRulesInOrder ==
    last.fn = "validate" =>
        /\ last.r.ok = (ArgsRule = 0)
        /\ last.r.error_msg =
              (IF ArgsRule = 0 THEN no_error ELSE ConfigMessages[ArgsRule])

\* Every outcome the rules can have has been returned: the disabled jerk 0
\* accepted and a jerk that passes both ratio rules rejected for its ramp time
C11_Witness ==
    /\ last.fn = "validate"
    /\ \/ ToInt(args.max_jerk) = 0 /\ last.r.ok
       \/ ArgsRule = 4 /\ ~last.r.ok

\* C12: should_use_s_curve returns true if and only if jerk and acceleration
\* are positive, the ramp time Tj = acceleration / jerk is within
\* [0.005, 0.5] s and the distance is at least 4 * acceleration * Tj^2.
ShouldUse(d, j, a) ==
    /\ j > 0 /\ a > 0
    /\ 200 * a >= j /\ 2 * a <= j
    /\ d >= CeilDiv(4 * a * a * a, j * j)
C12_UsageDecision ==
    last.fn = "should_use" =>
        last.r = ShouldUse(ToInt(args.distance), ToInt(args.max_jerk),
                           ToInt(args.max_acceleration))

\* The decision has been true at a bound of the ramp time
C12_Witness ==
    /\ last.fn = "should_use" /\ last.r
    /\ \/ ToInt(args.max_jerk) = 200 * ToInt(args.max_acceleration)
       \/ ToInt(args.max_jerk) = 2 * ToInt(args.max_acceleration)


\* The estimator defers: jerk or acceleration is not positive
JunctionDeferred ==
    ToInt(args.max_jerk) <= 0 \/ ToInt(args.max_acceleration) <= 0
ShorterLength ==
    IF ToInt(args.distance) < ToInt(args.distance2)
    THEN ToInt(args.distance) ELSE ToInt(args.distance2)
\* shorter < 2 * a * Tj^2, in exact arithmetic
DistanceLimited ==
    ShorterLength < CeilDiv(2 * ToInt(args.max_acceleration)
                              * ToInt(args.max_acceleration)
                              * ToInt(args.max_acceleration),
                            ToInt(args.max_jerk) * ToInt(args.max_jerk))
\* What the claim puts under the root, mm^2/s^2
JunctionSquare ==
    IF DistanceLimited
    THEN FMul(FMul(FromInt(ShorterLength), args.max_acceleration),
              args.angle_factor)
    ELSE FMul(FDiv(FMul(args.max_acceleration, args.max_acceleration),
                   args.max_jerk), args.angle_factor)
RootTol == FLit(1, 100000)
\* v is the square root of p: NaN for a negative p, else v >= 0 with
\* v * v = p to a relative 1e-5
IsRootOf(v, p) ==
    IF FLt(p, F0) THEN IsNaN(v)
    ELSE FGe(v, F0) /\ Within(FMul(v, v), p, FMul(p, RootTol))
\* A smaller angle factor never yields a larger velocity than the last call
AngleMonotone ==
    \A af \in AngleFactors :
        FLe(af, args.angle_factor) =>
            ~FGt(calculate_s_curve_junction_velocity(args.distance,
                     args.distance2, args.max_acceleration, args.max_jerk, af),
                 last.r)

\* C13 as stated: calculate_s_curve_junction_velocity returns 0 for a
\* non-positive jerk or acceleration; else sqrt(shorter * a * angle_factor)
\* when shorter < 2 * a * Tj^2 and sqrt(a^2 / jerk * angle_factor) otherwise;
\* a smaller angle factor never yields a larger velocity.
C13_JunctionVelocity ==
    last.fn = "junction" =>
        /\ IF JunctionDeferred THEN last.r = F0
           ELSE IsRootOf(last.r, JunctionSquare)
        /\ AngleMonotone

\* C13 amended: the value returned is that square root converted from mm/s
\* to mm/min, that is 60 * sqrt(...); the rest as stated.
C13_JunctionVelocityPerMinute ==
    last.fn = "junction" =>
        /\ IF JunctionDeferred THEN last.r = F0
           ELSE IsRootOf(FDiv(last.r, F60), JunctionSquare)
        /\ AngleMonotone

\* A distance-limited junction has been given a positive velocity
C13_Witness ==
    /\ last.fn = "junction"
    /\ ~JunctionDeferred /\ DistanceLimited
    /\ FGt(last.r, F0)


\* The move is neither short nor of near-equal speeds
OutsideCheapCase ==
    /\ FGe(args.distance, FromInt(10))
    /\ FGe(FAbs(FSub(args.entry_speed, args.exit_speed)), FromInt(50))
FullProfile(g) ==
    calculate_s_curve_profile(args.distance, args.entry_speed,
        args.exit_speed, args.max_velocity, args.max_acceleration,
        args.max_jerk, g)
FastProfile(g) ==
    calculate_s_curve_fast(args.distance, args.entry_speed,
        args.exit_speed, args.max_velocity, args.max_acceleration,
        args.max_jerk, g)
SamePhaseData(p, q) ==
    /\ p.valid = q.valid /\ p.profile_type = q.profile_type
    /\ p.T = q.T /\ p.S = q.S /\ p.V = q.V

\* C14: outside the short / near-equal-speed case (distance >= 10 mm and
\* speeds at least 50 mm/min apart, positive distance, acceleration and
\* jerk) calculate_s_curve_fast returns the valid flag, shape and phase data
\* that calculate_s_curve_profile returns for the same arguments, and never
\* a Reduced shape.
C14_FastDelegates ==
    (via = "fast" /\ PositiveInputs /\ OutsideCheapCase) =>
        /\ \A g \in Garbage : SamePhaseData(profile, FullProfile(g))
        /\ profile.profile_type # SC_PROFILE_REDUCED

\* The fast synthesizer has returned a valid profile for a move of exactly
\* 10 mm whose speeds differ
C14_Witness ==
    /\ via = "fast" /\ PositiveInputs /\ OutsideCheapCase
    /\ FEq(args.distance, FromInt(10)) /\ profile.valid

IsFinite(x) == x.c = "fin"

\* C15: every input with positive distance, acceleration and jerk that takes
\* the cheap path of calculate_s_curve_fast (entry = exit = 0 included) gets
\* a valid Reduced profile whose phase durations are finite and >= 0 and
\* whose phase distances sum to the distance within 0.1 mm.
C15_CheapPathSound ==
    (via = "fast" /\ PositiveInputs /\ ~OutsideCheapCase) =>
        /\ profile.profile_type = SC_PROFILE_REDUCED /\ profile.valid
        /\ \A i \in Phases : IsFinite(profile.T[i]) /\ FGe(profile.T[i], F0)
        /\ FLe(FAbs(FSub(SumAll(profile.S), args.distance)), FTenth)

\* The limits of the spec's scenarios: 3000 mm/min, 500 mm/s^2, 5000 mm/s^3,
\* from rest to rest
ScenarioLimits ==
    /\ args.entry_speed = F0 /\ args.exit_speed = F0
    /\ args.max_velocity = FromInt(3000)
    /\ args.max_acceleration = FromInt(500)
    /\ args.max_jerk = FromInt(5000)

\* C16: calculate_s_curve_profile for 100 mm from rest to rest under
\* 3000 mm/min, 500 mm/s^2 and 5000 mm/s^3 returns a valid profile of shape
\* Full or NoCruise with V[3] <= 3000 mm/min and V[6] = 0.
C16_StandardMove ==
    (via = "profile" /\ ScenarioLimits /\ args.distance = FromInt(100)) =>
        /\ profile.valid
        /\ profile.profile_type \in {SC_PROFILE_FULL, SC_PROFILE_NO_CRUISE}
        /\ FLe(profile.V[SC_CRUISE], FromInt(3000))
        /\ FEq(profile.V[SC_DECEL_JERK_DOWN], F0)

\* The standard move has been synthesized and cruises
C16_Witness ==
    /\ via = "profile" /\ ScenarioLimits /\ args.distance = FromInt(100)
    /\ FGt(profile.T[SC_CRUISE], F0)

\* The distance the acceleration and the deceleration ask for beyond the
\* distance of the move, before the shape is chosen
Overshoot ==
    FSub(FMul(F2, DistanceStage(VelocityStage(ProfileLocals(args.distance,
             args.entry_speed, args.exit_speed, args.max_velocity,
             args.max_acceleration, args.max_jerk,
             Uninitialized([k \in 0..24 |-> F0])))).S_accel_total),
         args.distance)

\* C17: the 2 mm move under the scenario limits gets a valid Triangular
\* profile whose phase distances sum to 2 mm within 0.1 mm; and whenever the
\* acceleration and deceleration distances exceed the distance by more than
\* 0.1 mm the shape returned is Triangular.
C17_ShortMoveTriangular ==
    (via = "profile" /\ PositiveInputs) =>
        /\ (ScenarioLimits /\ args.distance = F2) =>
              /\ profile.valid
              /\ profile.profile_type = SC_PROFILE_TRIANGULAR
              /\ FLe(FAbs(FSub(SumAll(profile.S), F2)), FTenth)
        /\ FGt(Overshoot, FTenth) =>
              profile.profile_type = SC_PROFILE_TRIANGULAR

\* The 2 mm move has been synthesized, with an overshoot above 0.1 mm
C17_Witness ==
    /\ via = "profile" /\ ScenarioLimits /\ args.distance = F2
    /\ FGt(Overshoot, FTenth)
    /\ profile.valid

\* C18: calculate_s_curve_fast uses its lightweight (Reduced) computation
\* exactly for moves shorter than 50 mm or whose entry and exit speeds
\* differ by less than 100 mm/min, and the full computation otherwise.
C18_DocumentedThresholds ==
    (via = "fast" /\ PositiveInputs) =>
        (profile.profile_type = SC_PROFILE_REDUCED
            <=> \/ FLt(args.distance, FromInt(50))
                \/ FLt(FAbs(FSub(args.entry_speed, args.exit_speed)),
                       FromInt(100)))

\* C20: in every valid profile of calculate_s_curve_profile the shape agrees
\* with the phases: Full has T[3] > 0, T[1] > 0 and T[5] > 0; NoCruise has
\* T[3] = 0 and S[3] = 0 with T[1] > 0 and T[5] > 0; Triangular has
\* T[1] = T[5] = 0 and T[3] = 0.
C20_ShapeAgreesWithPhases ==
    (via = "profile" /\ profile.valid) =>
        /\ profile.profile_type = SC_PROFILE_FULL =>
              /\ FGt(profile.T[SC_CRUISE], F0)
              /\ FGt(profile.T[SC_ACCEL_CONST], F0)
              /\ FGt(profile.T[SC_DECEL_CONST], F0)
        /\ profile.profile_type = SC_PROFILE_NO_CRUISE =>
              /\ FEq(profile.T[SC_CRUISE], F0) /\ FEq(profile.S[SC_CRUISE], F0)
              /\ FGt(profile.T[SC_ACCEL_CONST], F0)
              /\ FGt(profile.T[SC_DECEL_CONST], F0)
        /\ profile.profile_type = SC_PROFILE_TRIANGULAR =>
              /\ FEq(profile.T[SC_ACCEL_CONST], F0)
              /\ FEq(profile.T[SC_DECEL_CONST], F0)
              /\ FEq(profile.T[SC_CRUISE], F0)


\* C21: in every valid profile of calculate_s_curve_profile, whatever the
\* shape and the entry speed, the peak velocity stored in V[2], V[3] and
\* cruise_velocity is at most max_velocity.
C21_PeakWithinMaxVelocity ==
    (via = "profile" /\ profile.valid) =>
        /\ FLe(profile.V[SC_ACCEL_JERK_DOWN], args.max_velocity)
        /\ FLe(profile.V[SC_CRUISE], args.max_velocity)
        /\ FLe(profile.cruise_velocity, args.max_velocity)

\* C22: in every valid profile of calculate_s_curve_profile with
\* entry_speed <= exit_speed the phase end velocities do not decrease through
\* phases 0..3 and do not increase through phases 3..6.
C22_VelocitiesRiseThenFall ==
    (via = "profile" /\ profile.valid
        /\ FLe(args.entry_speed, args.exit_speed)) =>
        /\ \A i \in 0..2 : FLe(profile.V[i], profile.V[i + 1])
        /\ \A i \in 3..5 : FGe(profile.V[i], profile.V[i + 1])

\* C23: every valid profile of calculate_s_curve_profile ends at the exit
\* velocity: V[6] is the exit speed and s_curve_velocity_at_time at
\* total_time is the exit speed, both within 0.1 mm/min, and phases 4..6
\* mirror phases 2..0 in duration and distance.
VelocityTol == FLit(1, 10)
C23_EndsAtExitVelocity ==
    (via = "profile" /\ profile.valid) =>
        /\ Within(profile.V[SC_DECEL_JERK_DOWN], args.exit_speed, VelocityTol)
        /\ \A i \in 0..2 : /\ FEq(profile.T[6 - i], profile.T[i])
                           /\ FEq(profile.S[6 - i], profile.S[i])
        /\ (last.fn = "velocity" /\ last.t = profile.total_time) =>
              Within(last.r, args.exit_speed, VelocityTol)

\* C24: every profile returned with valid = true by either synthesizer
\* carries the limits it was synthesized under: max_velocity,
\* max_acceleration and max_jerk equal the arguments, and V[0..6] are
\* defined, that is, they do not vary with the contents of unwritten memory.
C24_LimitsCarried ==
    (Returned /\ profile.valid) =>
        /\ FEq(profile.max_velocity, args.max_velocity)
        /\ FEq(profile.max_acceleration, args.max_acceleration)
        /\ FEq(profile.max_jerk, args.max_jerk)
        /\ \A g \in Garbage :
              profile.V = (IF via = "profile" THEN FullProfile(g)
                           ELSE FastProfile(g)).V

\* C25: in every valid profile of calculate_s_curve_profile with
\* non-negative entry and exit speeds every phase distance S[0..6] is >= 0;
\* in particular the Triangular jerk-down distance S[2] and its mirror S[4].
C25_PhaseDistancesNonNegative ==
    (via = "profile" /\ profile.valid
        /\ FGe(args.entry_speed, F0) /\ FGe(args.exit_speed, F0)) =>
        \A i \in Phases : FGe(profile.S[i], F0)

=============================================================================
